---- MODULE Spec2Model ----
(***************************************************************************)
(* Model of organize_fastq.py: the FASTQ_RE matcher, the find_fastqs       *)
(* scanner, the grouping loop of main and the relocate / concatenate       *)
(* consolidator, over an explicit file system.                             *)
(*                                                                         *)
(* A file name is a sequence of one-character strings, a path a sequence   *)
(* of names, a file's content a sequence of bytes (small naturals).        *)
(***************************************************************************)
EXTENDS Integers, Sequences, FiniteSets, TLC

VARIABLES
    pc,        \* position of main: "start", "scan", "group", "copy", "unlink", "done", "exit1", "aborted"
               \* (matcher harness: "match", "matched")
    flag,      \* value of --outdir on the command line (Unset when absent)
    env,       \* value of the OUTDIR environment variable (Unset when absent)
    outdir,    \* main's outdir: the resolved absolute path (empty until computed)
    fs,        \* the file system: absolute path -> node (paths outside the domain do not exist)
    fs0,       \* the file system as it was when the run started
    walk,      \* os.walk's pending directories (relative to the root "."), next one first
    emitted,   \* every entry path find_fastqs has yielded, in emission order
    groups,    \* main's groups dict, as a sequence of [key, entries] in insertion order
    gi,        \* index of the group the for loop of main is at
    ci,        \* concatenate: number of sorted entries already copied
    ui,        \* relocate: number of entries already unlinked
    raisedAt,  \* where the exception that ended the run was raised ("" while none was)
    fname,     \* matcher harness: the file name handed to FASTQ_RE.match
    mres       \* matcher harness: the result of the match

vars == <<pc, flag, env, outdir, fs, fs0, walk, emitted, groups, gi, ci, ui, raisedAt, fname, mres>>

(***************************************************************************)
(* Sequence helpers                                                        *)
(***************************************************************************)
Suffix(s, n) == SubSeq(s, Len(s) - n + 1, Len(s))

Prefix(s, n) == SubSeq(s, 1, n)

Range(s) == {s[i] : i \in 1..Len(s)}

RECURSIVE Flatten(_)
Flatten(ss) == IF ss = <<>> THEN <<>> ELSE Head(ss) \o Flatten(Tail(ss))

(***************************************************************************)
(* FASTQ_RE                                                                *)
(*   ^(?P<prefix>.+)_(?P<sample>[^_]+)_L(?P<lane>\d+)_R(?P<read>[12])      *)
(*    (?P<ext>\.(?:f(?:ast)?q)(?:\.gz)?)$     with re.IGNORECASE           *)
(***************************************************************************)
Digits == {"0", "1", "2", "3", "4", "5", "6", "7", "8", "9"}

DigitVal(c) ==
    CASE c = "0" -> 0 [] c = "1" -> 1 [] c = "2" -> 2 [] c = "3" -> 3 [] c = "4" -> 4
      [] c = "5" -> 5 [] c = "6" -> 6 [] c = "7" -> 7 [] c = "8" -> 8 [] c = "9" -> 9

\* re.IGNORECASE: the letters of the pattern match either case
Lower(c) ==
    CASE c = "F" -> "f" [] c = "A" -> "a" [] c = "S" -> "s" [] c = "T" -> "t"
      [] c = "Q" -> "q" [] c = "G" -> "g" [] c = "Z" -> "z" [] c = "L" -> "l"
      [] c = "R" -> "r" [] OTHER -> c

LowerSeq(s) == [i \in 1..Len(s) |-> Lower(s[i])]

\* int(match.group("lane")): the decimal value, leading zeros ignored
RECURSIVE ParseInt(_)
ParseInt(ds) ==
    IF ds = <<>> THEN 0 ELSE 10 * ParseInt(Prefix(ds, Len(ds) - 1)) + DigitVal(ds[Len(ds)])

\* the four spellings of \.(?:f(?:ast)?q)(?:\.gz)? in lower case
Extensions ==
    { <<".", "f", "q">>, <<".", "f", "a", "s", "t", "q">>,
      <<".", "f", "q", ".", "g", "z">>, <<".", "f", "a", "s", "t", "q", ".", "g", "z">> }

NoMatch == [ok |-> FALSE, sample |-> <<>>, lane |-> 0, read |-> <<>>, ext |-> <<>>]

\* number of characters at the end of s (a prefix of the name) that are in cls
RECURSIVE RunBefore(_, _)
RunBefore(s, cls) ==
    IF s = <<>> \/ s[Len(s)] \notin cls THEN 0 ELSE 1 + RunBefore(Prefix(s, Len(s) - 1), cls)

NonUnderscore(s) == Range(s) \ {"_"}

MatchPrefixAllowEmpty(pre) == TRUE

\* (?P<prefix>.+) : at least one character
MatchPrefix(pre) == Len(pre) >= 1

\* FASTQ_RE.match(filename): the groups are fixed from the right end, since
\* ext is anchored by $ and each of _R, _L and the _ before the sample is a
\* literal that the neighbouring character classes exclude.
Match(name) ==
    LET extLens == {n \in {3, 6, 9} : n <= Len(name) /\ LowerSeq(Suffix(name, n)) \in Extensions}
    IN  IF extLens = {} THEN NoMatch
        ELSE
        LET e    == CHOOSE n \in extLens : TRUE
            ext  == Suffix(name, e)
            r1   == Prefix(name, Len(name) - e)          \* ... _R<read>
        IN  IF Len(r1) < 3 \/ r1[Len(r1)] \notin {"1", "2"}
               \/ Lower(r1[Len(r1) - 1]) # "r" \/ r1[Len(r1) - 2] # "_"
            THEN NoMatch
            ELSE
            LET read == <<r1[Len(r1)]>>
                r2   == Prefix(r1, Len(r1) - 3)          \* ... _L<lane>
                d    == RunBefore(r2, Digits)
                r3   == Prefix(r2, Len(r2) - d)          \* ... _L
            IN  IF d = 0 \/ Len(r3) < 2 \/ Lower(r3[Len(r3)]) # "l" \/ r3[Len(r3) - 1] # "_"
                THEN NoMatch
                ELSE
                LET r4 == Prefix(r3, Len(r3) - 2)        \* <prefix>_<sample>
                    s  == RunBefore(r4, NonUnderscore(r4))
                    r5 == Prefix(r4, Len(r4) - s)        \* <prefix>_
                IN  IF s = 0 \/ Len(r5) < 1 \/ ~MatchPrefix(Prefix(r5, Len(r5) - 1))
                    THEN NoMatch
                    ELSE [ok |-> TRUE, sample |-> Suffix(r4, s),
                          lane |-> ParseInt(Suffix(r2, d)), read |-> read, ext |-> ext]

(***************************************************************************)
(* File system.  An absolute path is the sequence of its components (the   *)
(* root directory is <<>>); fs maps the existing paths to their nodes.     *)
(***************************************************************************)
DirNode == [kind |-> "dir", data |-> <<>>]

FileNode(bytes) == [kind |-> "file", data |-> bytes]

\* the working directory the script is started in: /p/w
Cwd == << <<"p">>, <<"w">> >>

Exists(f, p) == p \in DOMAIN f

IsDir(f, p) == p = <<>> \/ (Exists(f, p) /\ f[p].kind = "dir")

IsFile(f, p) == Exists(f, p) /\ f[p].kind = "file"

Put(f, p, node) == [x \in DOMAIN f \cup {p} |-> IF x = p THEN node ELSE f[x]]

Remove(f, p) == [x \in DOMAIN f \ {p} |-> f[x]]

\* Path.parents: the strict ancestors of p
Parents(p) == {Prefix(p, k) : k \in 0..(Len(p) - 1)}

\* what the kernel makes of "." and ".." components
RECURSIVE Normalize(_, _)
Normalize(done, rest) ==
    IF rest = <<>> THEN done
    ELSE IF Head(rest) = <<".">> THEN Normalize(done, Tail(rest))
    ELSE IF Head(rest) = <<".", ".">>
         THEN Normalize(IF done = <<>> THEN <<>> ELSE Prefix(done, Len(done) - 1), Tail(rest))
    ELSE Normalize(Append(done, Head(rest)), Tail(rest))

\* the absolute path a path relative to the working directory denotes
Abs(rel) == Normalize(<<>>, Cwd \o rel)

\* Path.mkdir(parents=True, exist_ok=True) raises when the path or one of its
\* ancestors is a regular file
MkdirFails(f, p) == \E k \in 1..Len(p) : IsFile(f, Prefix(p, k))

MkdirP(f, p) ==
    LET new == {Prefix(p, k) : k \in 1..Len(p)}
    IN  [x \in DOMAIN f \cup new |-> IF x \in DOMAIN f THEN f[x] ELSE DirNode]

\* the names os.walk lists in directory d
FileNames(f, d) == {x[Len(x)] : x \in {y \in DOMAIN f : Len(y) = Len(d) + 1 /\ Prefix(y, Len(d)) = d /\ f[y].kind = "file"}}

DirNames(f, d) == {x[Len(x)] : x \in {y \in DOMAIN f : Len(y) = Len(d) + 1 /\ Prefix(y, Len(d)) = d /\ f[y].kind = "dir"}}

\* the orders in which a directory listing can come back
Perms(S) == {s \in [1..Cardinality(S) -> S] : Range(s) = S}

(***************************************************************************)
(* parse_args and the outdir check of main                                 *)
(***************************************************************************)
Unset == [set |-> FALSE, path |-> <<>>]

Given(path) == [set |-> TRUE, path |-> path]

\* parser.add_argument("--outdir", default=os.environ.get("OUTDIR"))
ParseArgs(fl, en) == IF fl.set THEN fl ELSE en

FalsyNoneOnly(arg) == ~arg.set

\* `not args.outdir`: None or the empty string
Falsy(arg) == ~arg.set \/ arg.path = <<>>

(***************************************************************************)
(* find_fastqs and the grouping loop of main                               *)
(***************************************************************************)
Key(m) == [sample |-> m.sample, read |-> m.read, ext |-> m.ext]

RECURSIVE YieldedUnfiltered(_, _)
YieldedUnfiltered(dirpath, filenames) ==
    IF filenames = <<>> THEN <<>>
    ELSE LET m == Match(Head(filenames))
         IN  <<[key |-> Key(m), entry |-> [path |-> Append(dirpath, Head(filenames)), lane |-> m.lane]]>>
                 \o YieldedUnfiltered(dirpath, Tail(filenames))

\* the tuples find_fastqs yields for one directory, in listing order
RECURSIVE Yielded(_, _)
Yielded(dirpath, filenames) ==
    IF filenames = <<>> THEN <<>>
    ELSE LET m == Match(Head(filenames))
         IN  (IF m.ok
              THEN <<[key |-> Key(m), entry |-> [path |-> Append(dirpath, Head(filenames)), lane |-> m.lane]]>>
              ELSE <<>>) \o Yielded(dirpath, Tail(filenames))

\* if exclude_resolved and exclude_resolved in current_dir.parents: continue
SkipDir(exclude, current_dir) == exclude \in Parents(current_dir)

\* groups[(sample, read, ext)].append(entry)
AddEntry(gs, y) ==
    IF \E i \in 1..Len(gs) : gs[i].key = y.key
    THEN [i \in 1..Len(gs) |-> IF gs[i].key = y.key
                               THEN [gs[i] EXCEPT !.entries = Append(@, y.entry)]
                               ELSE gs[i]]
    ELSE Append(gs, [key |-> y.key, entries |-> <<y.entry>>])

RECURSIVE AddAll(_, _)
AddAll(gs, ys) == IF ys = <<>> THEN gs ELSE AddAll(AddEntry(gs, Head(ys)), Tail(ys))

(***************************************************************************)
(* concatenate / relocate                                                  *)
(***************************************************************************)
\* insert e after every entry whose lane is not greater: a stable sort
RECURSIVE InsertByLane(_, _)
InsertByLane(sorted, e) ==
    IF sorted = <<>> THEN <<e>>
    ELSE IF Head(sorted).lane <= e.lane THEN <<Head(sorted)>> \o InsertByLane(Tail(sorted), e)
    ELSE <<e>> \o sorted

RECURSIVE SortByLaneDescending(_)
SortByLaneDescending(files) ==
    IF files = <<>> THEN <<>>
    ELSE LET rest == SortByLaneDescending(Prefix(files, Len(files) - 1))
             e == files[Len(files)]
             k == Cardinality({i \in 1..Len(rest) : rest[i].lane >= e.lane})
         IN  Prefix(rest, k) \o <<e>> \o SubSeq(rest, k + 1, Len(rest))

\* sorted(files, key=lambda entry: entry.lane)
RECURSIVE SortByLane(_)
SortByLane(files) ==
    IF files = <<>> THEN <<>>
    ELSE InsertByLane(SortByLane(Prefix(files, Len(files) - 1)), files[Len(files)])

\* dest = outdir / sample / f"{sample}_R{read}{ext}"
DestName(key) == key.sample \o <<"_", "R">> \o key.read \o key.ext

Dest(od, key) == Normalize(<<>>, od \o <<key.sample, DestName(key)>>)

\* destination.parent
DestParent(od, key) == Normalize(<<>>, od \o <<key.sample>>)

\* shutil.move: an existing directory at dst receives the file under its own name
RealDst(f, src, dst) == IF IsDir(f, dst) THEN Append(dst, src[Len(src)]) ELSE dst

MoveFails(f, src, dst) ==
    \/ ~IsFile(f, src)
    \/ IsDir(f, dst) /\ Exists(f, RealDst(f, src, dst))

Move(f, src, dst) == Remove(Put(f, RealDst(f, src, dst), f[src]), src)

(***************************************************************************)
(* The trees and command lines a run is started on                         *)
(***************************************************************************)
NameA3R1 == <<"x", "_", "A", "_", "L", "3", "_", "R", "1", ".", "f", "q">>

NameA1R1 == <<"x", "_", "A", "_", "L", "1", "_", "R", "1", ".", "f", "q">>

NameA2R1 == <<"x", "_", "A", "_", "L", "2", "_", "R", "1", ".", "f", "q">>

NameYA1R1 == <<"y", "_", "A", "_", "L", "0", "1", "_", "R", "1", ".", "f", "q">>

NameA1R2 == <<"x", "_", "A", "_", "L", "1", "_", "R", "2", ".", "f", "q">>

NameDots == <<"x", "_", ".", ".", "_", "L", "1", "_", "R", "1", ".", "f", "q">>

NameOutput == <<"A", "_", "R", "1", ".", "f", "q">>

NameNotes == <<"n", "o", "t", "e", "s", ".", "t", "x", "t">>

DirOut == <<"o", "u", "t">>

DirD == <<"d">>

DirSub == <<"s", "u", "b">>

DirA == <<"A">>

Dot == <<".">>

DotDot == <<".", ".">>

\* what may lie in the tree before the run; a tree holds at most MaxFiles of these
Candidates ==
    { [path |-> Cwd \o <<NameA3R1>>,                 node |-> FileNode(<<3>>)],
      [path |-> Cwd \o <<NameA1R1>>,                 node |-> FileNode(<<1, 1>>)],
      [path |-> Cwd \o <<DirD, NameA2R1>>,           node |-> FileNode(<<2>>)],
      [path |-> Cwd \o <<DirD, NameYA1R1>>,          node |-> FileNode(<<4>>)],
      [path |-> Cwd \o <<NameA1R2>>,                 node |-> FileNode(<<5>>)],
      [path |-> Cwd \o <<NameDots>>,                 node |-> FileNode(<<6>>)],
      [path |-> Cwd \o <<NameNotes>>,                node |-> FileNode(<<10>>)],
      [path |-> Cwd \o <<DirA>>,                     node |-> FileNode(<<11>>)],
      [path |-> Cwd \o <<DirOut, NameA2R1>>,         node |-> FileNode(<<7>>)],
      [path |-> Cwd \o <<DirOut, DirSub, NameA1R1>>, node |-> FileNode(<<8>>)],
      [path |-> Cwd \o <<DirOut, DirA, NameOutput>>, node |-> FileNode(<<9>>)],
      [path |-> Cwd \o <<DirOut, DirA, NameOutput>>, node |-> DirNode] }

MaxFiles == 4

Trees ==
    { S \in SUBSET Candidates :
        /\ Cardinality(S) <= MaxFiles
        /\ \A x, y \in S : x.path = y.path => x = y }

\* the tree holding the chosen items, with the directories leading to them
BuildFs(items) ==
    LET dirs == {Prefix(Cwd, k) : k \in 1..Len(Cwd)}
                  \cup UNION {{Prefix(it.path, k) : k \in 1..(Len(it.path) - 1)} : it \in items}
        item(x) == CHOOSE it \in items : it.path = x
    IN  [x \in dirs \cup {it.path : it \in items} |->
            IF \E it \in items : it.path = x THEN item(x).node ELSE DirNode]

FlagValues == {Unset, Given(<<>>), Given(<<DirOut>>), Given(<<Dot>>)}

EnvValues == {Unset, Given(<<>>), Given(<<DirOut>>), Given(<<DotDot>>)}

InitRun ==
    /\ pc = "start"
    /\ flag \in FlagValues
    /\ env \in EnvValues
    /\ outdir = <<>>
    /\ fs \in {BuildFs(items) : items \in Trees}
    /\ fs0 = fs
    /\ walk = <<>> /\ emitted = <<>> /\ groups = <<>>
    /\ gi = 0 /\ ci = 0 /\ ui = 0 /\ raisedAt = ""
    /\ fname = <<>> /\ mres = NoMatch

(***************************************************************************)
(* main                                                                    *)
(***************************************************************************)
\* lines 84-87: no usable outdir
MainNoOutdir ==
    /\ pc = "start"
    /\ Falsy(ParseArgs(flag, env))
    /\ pc' = "exit1"
    /\ UNCHANGED <<flag, env, outdir, fs, fs0, walk, emitted, groups, gi, ci, ui, raisedAt, fname, mres>>

\* lines 89-90 and the call of find_fastqs(Path("."), exclude=outdir)
MainMkdirOutdir ==
    /\ pc = "start"
    /\ ~Falsy(ParseArgs(flag, env))
    /\ LET od == Abs(ParseArgs(flag, env).path)
       IN  /\ ~MkdirFails(fs, od)
           /\ outdir' = od
           /\ fs' = MkdirP(fs, od)
    /\ walk' = << <<>> >>
    /\ pc' = "scan"
    /\ UNCHANGED <<flag, env, fs0, emitted, groups, gi, ci, ui, raisedAt, fname, mres>>

\* one iteration of `for dirpath, _, filenames in os.walk(root)`, lines 49-61,
\* with main's groups[...].append(entry) for everything it yields
WalkDir ==
    /\ pc = "scan"
    /\ walk # <<>>
    /\ LET dirpath == Head(walk)
           current_dir == Abs(dirpath)
       IN  \E dirs \in Perms(DirNames(fs, current_dir)), filenames \in Perms(FileNames(fs, current_dir)) :
             LET ys == IF SkipDir(outdir, current_dir) THEN <<>> ELSE Yielded(dirpath, filenames)
             IN  /\ walk' = [i \in 1..Len(dirs) |-> Append(dirpath, dirs[i])] \o Tail(walk)
                 /\ emitted' = emitted \o [i \in 1..Len(ys) |-> ys[i].entry.path]
                 /\ groups' = AddAll(groups, ys)
    /\ UNCHANGED <<pc, flag, env, outdir, fs, fs0, gi, ci, ui, raisedAt, fname, mres>>

\* lines 96-98: nothing matched
MainNoGroups ==
    /\ pc = "scan"
    /\ walk = <<>>
    /\ groups = <<>>
    /\ pc' = "exit1"
    /\ UNCHANGED <<flag, env, outdir, fs, fs0, walk, emitted, groups, gi, ci, ui, raisedAt, fname, mres>>

\* line 100: the loop over groups.items() starts
MainGroupsFound ==
    /\ pc = "scan"
    /\ walk = <<>>
    /\ groups # <<>>
    /\ gi' = 1
    /\ pc' = "group"
    /\ UNCHANGED <<flag, env, outdir, fs, fs0, walk, emitted, groups, ci, ui, raisedAt, fname, mres>>

CurKey == groups[gi].key

CurEntries == groups[gi].entries

CurDest == Dest(outdir, CurKey)

\* lines 73-77: relocate with a single entry
RelocateMove ==
    /\ pc = "group"
    /\ gi <= Len(groups)
    /\ Len(CurEntries) = 1
    /\ ~MkdirFails(fs, DestParent(outdir, CurKey))
    /\ LET f1 == MkdirP(fs, DestParent(outdir, CurKey))
           src == Abs(CurEntries[1].path)
       IN  /\ ~MoveFails(f1, src, CurDest)
           /\ fs' = Move(f1, src, CurDest)
    /\ gi' = gi + 1
    /\ UNCHANGED <<pc, flag, env, outdir, fs0, walk, emitted, groups, ci, ui, raisedAt, fname, mres>>

\* lines 74, 78 and 65-67: relocate with several entries, up to the opening
\* of the destination for writing
ConcatenateOpen ==
    /\ pc = "group"
    /\ gi <= Len(groups)
    /\ Len(CurEntries) # 1
    /\ ~MkdirFails(fs, DestParent(outdir, CurKey))
    /\ LET f1 == MkdirP(fs, DestParent(outdir, CurKey))
       IN  /\ ~IsDir(f1, CurDest)
           /\ fs' = Put(f1, CurDest, FileNode(<<>>))
    /\ ci' = 0
    /\ pc' = "copy"
    /\ UNCHANGED <<flag, env, outdir, fs0, walk, emitted, groups, gi, ui, raisedAt, fname, mres>>

CopyEntryUnlinking ==
    /\ pc = "copy"
    /\ ci < Len(CurEntries)
    /\ LET src == Abs(SortByLane(CurEntries)[ci + 1].path)
       IN  /\ IsFile(fs, src)
           /\ fs' = Remove([fs EXCEPT ![CurDest].data = @ \o fs[src].data], src)
    /\ ci' = ci + 1
    /\ UNCHANGED <<pc, flag, env, outdir, fs0, walk, emitted, groups, gi, ui, raisedAt, fname, mres>>

\* lines 68-70: one source copied to the end of the destination
CopyEntry ==
    /\ pc = "copy"
    /\ ci < Len(CurEntries)
    /\ LET src == Abs(SortByLane(CurEntries)[ci + 1].path)
       IN  /\ IsFile(fs, src)
           /\ fs' = [fs EXCEPT ![CurDest].data = @ \o fs[src].data]
    /\ ci' = ci + 1
    /\ UNCHANGED <<pc, flag, env, outdir, fs0, walk, emitted, groups, gi, ui, raisedAt, fname, mres>>

\* concatenate returns, relocate reaches its unlink loop (line 79)
ConcatenateDone ==
    /\ pc = "copy"
    /\ ci = Len(CurEntries)
    /\ ui' = 0
    /\ pc' = "unlink"
    /\ UNCHANGED <<flag, env, outdir, fs, fs0, walk, emitted, groups, gi, ci, raisedAt, fname, mres>>

UnlinkEntrySkipFirst ==
    /\ pc = "unlink"
    /\ ui < Len(CurEntries)
    /\ IsFile(fs, Abs(CurEntries[ui + 1].path))
    /\ fs' = IF ui = 0 THEN fs ELSE Remove(fs, Abs(CurEntries[ui + 1].path))
    /\ ui' = ui + 1
    /\ UNCHANGED <<pc, flag, env, outdir, fs0, walk, emitted, groups, gi, ci, raisedAt, fname, mres>>

\* line 80: entry.path.unlink(), in the order of the entries list
UnlinkEntry ==
    /\ pc = "unlink"
    /\ ui < Len(CurEntries)
    /\ IsFile(fs, Abs(CurEntries[ui + 1].path))
    /\ fs' = Remove(fs, Abs(CurEntries[ui + 1].path))
    /\ ui' = ui + 1
    /\ UNCHANGED <<pc, flag, env, outdir, fs0, walk, emitted, groups, gi, ci, raisedAt, fname, mres>>

\* relocate returns to the loop of main
RelocateDone ==
    /\ pc = "unlink"
    /\ ui = Len(CurEntries)
    /\ gi' = gi + 1
    /\ pc' = "group"
    /\ UNCHANGED <<flag, env, outdir, fs, fs0, walk, emitted, groups, ci, ui, raisedAt, fname, mres>>

\* line 104: return 0
MainReturn ==
    /\ pc = "group"
    /\ gi > Len(groups)
    /\ pc' = "done"
    /\ UNCHANGED <<flag, env, outdir, fs, fs0, walk, emitted, groups, gi, ci, ui, raisedAt, fname, mres>>

\* an exception of mkdir, move, open or unlink: the run ends where it is.
\* A failing shutil.move may already have copied part of the source.
IOFailure ==
    /\ \/ pc = "start" /\ ~Falsy(ParseArgs(flag, env))
       \/ pc = "group" /\ gi <= Len(groups)
       \/ pc = "unlink" /\ ui < Len(CurEntries)
    /\ \/ UNCHANGED fs
       \/ /\ pc = "group" /\ Len(CurEntries) = 1
          /\ ~MkdirFails(fs, DestParent(outdir, CurKey))
          /\ LET f1 == MkdirP(fs, DestParent(outdir, CurKey))
                 src == Abs(CurEntries[1].path)
             IN  /\ ~IsDir(f1, CurDest)
                 /\ \E k \in 0..(Len(fs[src].data) - 1) :
                       fs' = Put(f1, CurDest, FileNode(Prefix(fs[src].data, k)))
    /\ pc' = "aborted"
    /\ raisedAt' = pc
    /\ UNCHANGED <<flag, env, outdir, fs0, walk, emitted, groups, gi, ci, ui, fname, mres>>

\* an exception while a source is read into the destination: the destination
\* keeps what was written so far
CopyFailure ==
    /\ pc = "copy"
    /\ ci < Len(CurEntries)
    /\ LET src == Abs(SortByLane(CurEntries)[ci + 1].path)
       IN  \E k \in 0..(IF IsFile(fs, src) THEN Len(fs[src].data) - 1 ELSE 0) :
              fs' = [fs EXCEPT ![CurDest].data =
                        @ \o (IF IsFile(fs, src) THEN Prefix(fs[src].data, k) ELSE <<>>)]
    /\ pc' = "aborted"
    /\ raisedAt' = "copy"
    /\ UNCHANGED <<flag, env, outdir, fs0, walk, emitted, groups, gi, ci, ui, fname, mres>>

Next ==
    \/ MainNoOutdir \/ MainMkdirOutdir \/ WalkDir \/ MainNoGroups \/ MainGroupsFound
    \/ RelocateMove \/ ConcatenateOpen \/ CopyEntry \/ ConcatenateDone
    \/ UnlinkEntry \/ RelocateDone \/ MainReturn \/ IOFailure \/ CopyFailure

Init == InitRun

Spec == Init /\ [][Next]_vars

(***************************************************************************)
(* Properties of a run                                                     *)
(***************************************************************************)
GroupIds == 1..Len(groups)

Multi(g) == Len(groups[g].entries) > 1

\* what the source of entry e held when the run started
Content0(e) == fs0[Abs(e.path)].data

Last(p) == p[Len(p)]

\* relocate has returned for group g
Returned(g) == g < gi

\* concatenate has returned for group g
Concatenated(g) ==
    \/ g < gi
    \/ g = gi /\ (pc = "unlink" \/ (pc = "aborted" /\ raisedAt = "unlink"))

\* the order of the claim: lanes non-decreasing, equal lanes in first-seen order
LaneOrder(entries) ==
    CHOOSE perm \in Perms(1..Len(entries)) :
        \A i, j \in 1..Len(entries) :
            i < j => \/ entries[perm[i]].lane < entries[perm[j]].lane
                     \/ entries[perm[i]].lane = entries[perm[j]].lane /\ perm[i] < perm[j]

Expected(g) ==
    LET es == groups[g].entries
        perm == LaneOrder(es)
    IN  Flatten([i \in 1..Len(es) |-> Content0(es[perm[i]])])

RECURSIVE SumSizes(_)
SumSizes(es) == IF es = <<>> THEN 0 ELSE Len(Content0(Head(es))) + SumSizes(Tail(es))

HoldsExpected(g) ==
    /\ IsFile(fs, Dest(outdir, groups[g].key))
    /\ fs[Dest(outdir, groups[g].key)].data = Expected(g)

\* C1: once concatenate has completed for a multi-entry group, the destination
\* holds the sources' bytes appended in non-decreasing lane order, equal lanes
\* in first-seen order, nothing in between.
C1_ConcatenationOrder ==
    \A g \in GroupIds : Multi(g) /\ Concatenated(g) => HoldsExpected(g)

\* a finished run with a group first seen as lanes 3, 1, 2
C1_Witness ==
    /\ pc = "done"
    /\ \E g \in GroupIds :
          /\ [i \in 1..Len(groups[g].entries) |-> groups[g].entries[i].lane] = <<3, 1, 2>>
          /\ fs[Dest(outdir, groups[g].key)].data = <<1, 1, 2, 3>>

\* C2 (as stated): a file lying in the resolved output directory or below it is
\* never emitted by find_fastqs and stays where it is.
C2_AsStated ==
    outdir # <<>> =>
        \A p \in DOMAIN fs0 :
            fs0[p].kind = "file" /\ outdir \in Parents(p) =>
                /\ \A i \in 1..Len(emitted) : Abs(emitted[i]) # p
                /\ IsFile(fs, p)

\* C3: once relocate has returned for a multi-entry group, none of its source
\* paths exists and the destination is as long as the sources together.
C3_SourcesGoneSizeSum ==
    \A g \in GroupIds :
        Multi(g) /\ Returned(g) =>
            /\ \A i \in 1..Len(groups[g].entries) : ~Exists(fs, Abs(groups[g].entries[i].path))
            /\ IsFile(fs, Dest(outdir, groups[g].key))
            /\ Len(fs[Dest(outdir, groups[g].key)].data) = SumSizes(groups[g].entries)

\* relocate has returned for a group of three sources of 1, 2 and 1 bytes
C3_Witness ==
    \E g \in GroupIds :
        /\ Returned(g) /\ Len(groups[g].entries) = 3
        /\ Len(fs[Dest(outdir, groups[g].key)].data) = 4

\* C4 (as stated): once relocate has returned for a single-entry group, the
\* destination path holds a file with the bytes the source held, whatever was
\* at the destination path before, and the source path is gone.
C4_AsStated ==
    \A g \in GroupIds :
        ~Multi(g) /\ Returned(g) =>
            /\ IsFile(fs, Dest(outdir, groups[g].key))
            /\ fs[Dest(outdir, groups[g].key)].data = Content0(groups[g].entries[1])
            /\ ~Exists(fs, Abs(groups[g].entries[1].path))

EmittedKeys == {Key(Match(Last(emitted[i]))) : i \in 1..Len(emitted)}

EmittedOfKey(k) == {i \in 1..Len(emitted) : Key(Match(Last(emitted[i]))) = k}

\* C5 (as stated): after a successful run the destination file of every key is
\* made of all of, and only, the scanned entries of that key.
C5_AsStated ==
    pc = "done" =>
        \A k \in EmittedKeys :
            /\ IsFile(fs, Dest(outdir, k))
            /\ \E order \in Perms(EmittedOfKey(k)) :
                  fs[Dest(outdir, k)].data =
                      Flatten([i \in 1..Len(order) |-> fs0[Abs(emitted[order[i]])].data])

RunEnded == pc \in {"done", "exit1", "aborted"}

NonMatching(p) == fs0[p].kind = "file" /\ ~Match(Last(p)).ok

Untouched(p) == Exists(fs, p) /\ fs[p] = fs0[p]

\* C6 (as stated): when the run ends, every file whose name does not match the
\* pattern is where it was, with the content it had.
C6_AsStated ==
    RunEnded => \A p \in DOMAIN fs0 : NonMatching(p) => Untouched(p)

Destinations == {Dest(outdir, groups[g].key) : g \in GroupIds}

\* C6 (amended): throughout the run, every file whose name does not match the
\* pattern and whose path is not the destination path of a group of this run
\* is where it was, with the content it had.
C6_NonMatchingUntouched ==
    \A p \in DOMAIN fs0 : NonMatching(p) /\ p \notin Destinations => Untouched(p)

\* a finished run that consolidated something in a tree holding notes.txt
C6_Witness ==
    /\ pc = "done"
    /\ IsFile(fs0, Cwd \o <<NameNotes>>)
    /\ fs # fs0

NotGiven(arg) == ~arg.set \/ Len(arg.path) = 0

\* C8: when neither --outdir nor OUTDIR gives a non-empty directory, main
\* returns 1 (it never gets past its check) and the file system stays as it was.
C8_NoOutdir ==
    NotGiven(flag) /\ NotGiven(env) => pc \in {"start", "exit1"} /\ fs = fs0

\* main has returned 1 on `--outdir ""` in a tree that holds a lane file
C8_Witness ==
    /\ pc = "exit1"
    /\ flag = Given(<<>>) /\ env = Unset
    /\ IsFile(fs0, Cwd \o <<NameA1R1>>)

SourcesInPlace(g) ==
    \A i \in 1..Len(groups[g].entries) :
        LET e == groups[g].entries[i]
        IN  IsFile(fs, Abs(e.path)) /\ fs[Abs(e.path)].data = Content0(e)

SourcesGone(g) ==
    \A i \in 1..Len(groups[g].entries) : ~Exists(fs, Abs(groups[g].entries[i].path))

\* C9: a source of a multi-entry group is gone only if the group's destination
\* holds the complete concatenation; after an exception during the
\* concatenation every source of that group is in place, every earlier group
\* is consolidated and every later group's files are as they were.
C9_DeleteAfterWrite ==
    /\ \A g \in GroupIds : Multi(g) /\ ~SourcesInPlace(g) => HoldsExpected(g)
    /\ pc = "aborted" /\ raisedAt = "copy" =>
          /\ SourcesInPlace(gi)
          /\ \A g \in GroupIds : g < gi => SourcesGone(g) /\ (Multi(g) => HoldsExpected(g))
          /\ \A g \in GroupIds : g > gi => SourcesInPlace(g)

\* an exception in the middle of the concatenation of the second of three
\* groups, part of the destination written
C9_Witness ==
    /\ pc = "aborted" /\ raisedAt = "copy"
    /\ gi = 2 /\ ci = 1 /\ Len(groups) = 3
    /\ fs[Dest(outdir, groups[gi].key)].data # <<>>

Changed(p) == IsFile(fs, p) /\ (~Exists(fs0, p) \/ fs0[p] # fs[p])

\* C10 (as stated): every group's destination lies inside the output directory,
\* and no file outside the output directory tree is created or overwritten.
C10_AsStated ==
    outdir # <<>> =>
        /\ \A g \in GroupIds : outdir \in Parents(Dest(outdir, groups[g].key))
        /\ \A p \in DOMAIN fs : Changed(p) => outdir \in Parents(p)

(***************************************************************************)
(* Matcher harness: file names assembled from well-formed and malformed    *)
(* pieces, each handed to Match once.                                      *)
(***************************************************************************)
PrefixPieces == { <<>>, <<"_">>, <<"x", "_">>, <<"x", "_", "y", "_">>, <<"_", "_">>, <<"x">> }

SamplePieces == { <<"A">>, <<"a">>, <<".">>, <<".", ".">>, <<>>, <<"A", ".", "b">>, <<"L", "1">> }

LanePieces ==
    { <<"_", "L", "1">>, <<"_", "L", "0", "0", "2">>, <<"_", "l", "1", "3">>, <<"_", "L">>,
      <<"_", "1">>, <<"L", "1">>, <<"_", "L", "1", "a">>, <<"_", "L", "0">> }

ReadPieces ==
    { <<"_", "R", "1">>, <<"_", "R", "2">>, <<"_", "r", "1">>, <<"_", "R", "3">>, <<"_", "R">>,
      <<"R", "1">>, <<"_", "R", "1", "2">> }

ExtPieces ==
    { <<".", "f", "q">>, <<".", "f", "a", "s", "t", "q">>, <<".", "f", "q", ".", "g", "z">>,
      <<".", "f", "a", "s", "t", "q", ".", "g", "z">>, <<".", "F", "Q">>,
      <<".", "F", "a", "s", "t", "q", ".", "G", "Z">>, <<".", "f", "a", "s", "t", "a">>,
      <<".", "g", "z">>, <<>>, <<".", "f", "q", ".", "g", "z", "x">>, <<"f", "q">>,
      <<".", "f", "q", ".", "b", "z">> }

MatchNames ==
    { p \o s \o l \o r \o e :
        p \in PrefixPieces, s \in SamplePieces, l \in LanePieces, r \in ReadPieces, e \in ExtPieces }

RunIdle ==
    /\ flag = Unset /\ env = Unset /\ outdir = <<>>
    /\ fs = <<>> /\ fs0 = <<>> /\ walk = <<>> /\ emitted = <<>> /\ groups = <<>>
    /\ gi = 0 /\ ci = 0 /\ ui = 0 /\ raisedAt = ""

InitMatch ==
    /\ RunIdle
    /\ pc = "match"
    /\ fname \in MatchNames
    /\ mres = NoMatch

\* match = FASTQ_RE.match(filename)
DoMatch ==
    /\ pc = "match"
    /\ mres' = Match(fname)
    /\ pc' = "matched"
    /\ UNCHANGED <<fname, flag, env, outdir, fs, fs0, walk, emitted, groups, gi, ci, ui, raisedAt>>

NextMatch == DoMatch

SpecMatch == InitMatch /\ [][NextMatch]_vars

(***************************************************************************)
(* The naming convention, stated as a decomposition of the file name       *)
(*   <pre> _ <sample> _L <digits> _R <read> <ext>                          *)
(***************************************************************************)
Shaped(name, a, n, d, e) ==
    LET sample == SubSeq(name, a + 2, a + 1 + n)
        digits == SubSeq(name, a + n + 4, a + n + 3 + d)
        rd     == name[a + n + d + 6]
        ext    == Suffix(name, e)
    IN  /\ a + n + d + e + 6 = Len(name)
        /\ name[a + 1] = "_"
        /\ n >= 1 /\ "_" \notin Range(sample)
        /\ name[a + n + 2] = "_" /\ name[a + n + 3] \in {"L", "l"}
        /\ d >= 1 /\ Range(digits) \subseteq Digits
        /\ name[a + n + d + 4] = "_" /\ name[a + n + d + 5] \in {"R", "r"}
        /\ rd \in {"1", "2"}
        /\ LowerSeq(ext) \in Extensions

\* every way of reading name as <pre>_<sample>_L<digits>_R<read><ext> with
\* a prefix of at least minPre characters
Splits(name, minPre) ==
    LET cand == { [a |-> a, n |-> n, d |-> Len(name) - a - n - e - 6, e |-> e] :
                    a \in minPre..Len(name), n \in 1..Len(name), e \in {3, 6, 9} }
    IN  { sp \in cand : sp.d >= 1 /\ Shaped(name, sp.a, sp.n, sp.d, sp.e) }

RECURSIVE Horner(_, _)
Horner(ds, acc) == IF ds = <<>> THEN acc ELSE Horner(Tail(ds), 10 * acc + DigitVal(Head(ds)))

FieldsOf(name, sp) ==
    [ok |-> TRUE,
     sample |-> SubSeq(name, sp.a + 2, sp.a + 1 + sp.n),
     lane |-> Horner(SubSeq(name, sp.a + sp.n + 4, sp.a + sp.n + 3 + sp.d), 0),
     read |-> <<name[sp.a + sp.n + sp.d + 6]>>,
     ext |-> Suffix(name, sp.e)]

\* C7 (as stated): the Matcher accepts a file name exactly when it ends with
\* _<sample>_L<digits>_R<1|2><ext> (whatever, possibly nothing, comes before),
\* and on acceptance returns the fields of that decomposition.
C7_AsStated ==
    pc = "matched" =>
        LET sps == Splits(fname, 0)
        IN  /\ mres.ok <=> sps # {}
            /\ \A sp \in sps : mres = FieldsOf(fname, sp)

\* C7 (amended): the Matcher accepts a file name exactly when it is a
\* non-empty prefix followed by _<sample>_L<digits>_R<1|2><ext>, letters of
\* the pattern in either case; on acceptance sample, lane (the integer value
\* of the digits), read and ext (as written) are those of the decomposition;
\* every other name is rejected.
C7_Matcher ==
    pc = "matched" =>
        LET sps == Splits(fname, 1)
        IN  /\ mres.ok <=> sps # {}
            /\ \A sp \in sps : mres = FieldsOf(fname, sp)
            /\ sps = {} => mres = NoMatch

\* an accepted name with leading zeros in the lane, a dots-only sample and an
\* upper-case extension
C7_Witness ==
    /\ pc = "matched" /\ mres.ok
    /\ mres.sample = <<".", ".">> /\ mres.lane = 2 /\ mres.ext = <<".", "F", "Q">>
    /\ Len(fname) > 13

====
